---- MODULE Spec2Model ----
(***************************************************************************)
(* Model of go_sign: the signing engine (internal/xhs/sign.go), the /sign  *)
(* gateway (internal/xhs/http.go) and the process entry point (main.go).  *)
(*                                                                         *)
(* Two specifications share the state:                                     *)
(*   Spec     the process of main.go: one NewSigner call, the HTTP         *)
(*            listener goroutine, concurrent /sign handlers, shutdown.     *)
(*   SpecLib  callers of package xhs: each calls NewSigner and then Sign   *)
(*            on the handle NewSigner returned to it.                      *)
(***************************************************************************)
EXTENDS Integers, Sequences, FiniteSets, TLC

\* ---------------------------------------------------------------- bounds
NumInst == 2
NumReq == 2

Inst == 1..NumInst
Req == 1..NumReq

\* The nil *Signer.
NilSigner == 0
\* The Signer main.go builds and hands to RegisterRoutes.
MainInst == 1

\* ---------------------------------------------------------------- values
Handles == {"page", "context", "browser", "pw"}

\* The calls of NewSigner's launch sequence, in source order.
StageOrder == <<"run", "launch", "newcontext", "stat", "addinitscript",
                "newpage", "goto", "cookies">>

URIs == {"/api/foo"}

\* ------------------------------------------------------------ characters
\* A text is a sequence of characters, each a string. The printable ASCII
\* characters (U+0020..U+007E), in code order, stand for themselves, except
\* the grave accent, which a TLA+ string cannot hold and is named "U+0060".
Ascii ==
    <<
      " ", "!", "\"", "#", "$", "%", "&", "'", "(", ")", "*", "+",
      ",", "-", ".", "/", "0", "1", "2", "3", "4", "5", "6", "7",
      "8", "9", ":", ";", "<", "=", ">", "?", "@", "A", "B", "C",
      "D", "E", "F", "G", "H", "I", "J", "K", "L", "M", "N", "O",
      "P", "Q", "R", "S", "T", "U", "V", "W", "X", "Y", "Z", "[",
      "\\", "]", "^", "_", "U+0060", "a", "b", "c", "d", "e", "f", "g",
      "h", "i", "j", "k", "l", "m", "n", "o", "p", "q", "r", "s",
      "t", "u", "v", "w", "x", "y", "z", "{", "|", "}", "~"
    >>

HexDigits == <<"0", "1", "2", "3", "4", "5", "6", "7", "8", "9",
               "a", "b", "c", "d", "e", "f">>

\* The four lower-case hexadecimal digits of n, 0 <= n < 65536.
Hex4(n) ==
    <<HexDigits[(n \div 4096) + 1], HexDigits[((n \div 256) % 16) + 1],
      HexDigits[((n \div 16) % 16) + 1], HexDigits[(n % 16) + 1]>>

\* The character of code point n. A character without a literal form is
\* named by its code point ("U+0008" is the backspace).
CodeToChar(n) ==
    IF n >= 32 /\ n <= 126 THEN Ascii[n - 31]
    ELSE CASE n = 9 -> "\t"
           [] n = 10 -> "\n"
           [] n = 12 -> "\f"
           [] n = 13 -> "\r"
           [] OTHER -> LET h == Hex4(n)
                       IN "U+" \o h[1] \o h[2] \o h[3] \o h[4]

\* The characters below U+0020.
ControlChars == {CodeToChar(n) : n \in 0..31}

\* The code point of character c.
CharCode(c) == CHOOSE n \in 0..65535 : CodeToChar(n) = c

\* ---------------------------------------------------------------- numbers
\* A JSON number is a float64 on the Go side and a Number (the same IEEE 754
\* binary64) in the page. A finite nonzero one is held as its sign and its
\* shortest decimal: the digits n (no leading and no trailing zero) and the
\* exponent e of n * 10^e. That is the decimal strconv and Number::toString
\* write for it: the shortest one that rounds to the float64, the closest to
\* it among those.
NumZero(neg) == [t |-> "num", neg |-> neg, n |-> <<0>>, e |-> 0]
NumDec(neg, ds, e) == [t |-> "num", neg |-> neg, n |-> ds, e |-> e]
\* +Inf and -Inf (Infinity in the page).
GoInf(neg) == [t |-> "inf", neg |-> neg]
\* NaN.
GoNaN == [t |-> "nan"]

\* Natural numbers of any size: the limbs in base 10000, least significant
\* first, without a leading zero limb; zero is the empty sequence.
Base == 10000
Pow10Small == <<1, 10, 100, 1000>>
Pow2Small == <<1, 2, 4, 8, 16, 32, 64, 128, 256, 512, 1024, 2048, 4096>>

Max0(x) == IF x > 0 THEN x ELSE 0
Limb(a, i) == IF i <= Len(a) THEN a[i] ELSE 0

\* a without its leading zero limbs.
BigTrim(a) ==
    LET n == Len(a)
        z == CHOOSE k \in 0..n :
                (k = n \/ a[n - k] # 0) /\ \A j \in (n - k + 1)..n : a[j] = 0
    IN SubSeq(a, 1, n - z)

RECURSIVE Carry(_, _, _, _)
\* The limbs lo..hi of the number whose limb i holds raw[i], any integer,
\* with c carried into limb lo, and the carry out of limb hi. The range is
\* halved, so that the depth is the logarithm of its length.
Carry(raw, lo, hi, c) ==
    IF lo = hi
    THEN [l |-> <<(raw[lo] + c) % Base>>, c |-> (raw[lo] + c) \div Base]
    ELSE LET low == Carry(raw, lo, (lo + hi) \div 2, c)
             high == Carry(raw, ((lo + hi) \div 2) + 1, hi, low.c)
         IN [l |-> low.l \o high.l, c |-> high.c]

\* The number whose limb i holds raw[i], for a number that is not negative.
BigCarry(raw) ==
    IF raw = <<>> THEN <<>>
    ELSE LET x == Carry(raw, 1, Len(raw), 0) IN BigTrim(Append(x.l, x.c))

\* a * m, for 0 <= m <= Base.
BigMulSmall(a, m) == BigCarry([i \in 1..Len(a) |-> a[i] * m])

BigAdd(a, b) ==
    BigCarry([i \in 1..(IF Len(a) > Len(b) THEN Len(a) ELSE Len(b)) |->
                 Limb(a, i) + Limb(b, i)])

\* a - b, for a >= b.
BigSub(a, b) == BigCarry([i \in 1..Len(a) |-> a[i] - Limb(b, i)])

\* -1, 0 or 1 as a is less than, equal to or greater than b: by the lengths,
\* then by the highest limb that differs.
BigCmp(a, b) ==
    IF Len(a) # Len(b) THEN (IF Len(a) < Len(b) THEN -1 ELSE 1)
    ELSE LET n == Len(a)
             z == CHOOSE k \in 0..n :
                     /\ k = n \/ a[n - k] # b[n - k]
                     /\ \A j \in (n - k + 1)..n : a[j] = b[j]
         IN IF z = n THEN 0 ELSE IF a[n - z] < b[n - z] THEN -1 ELSE 1

\* a * 10^k.
BigMulPow10(a, k) ==
    IF a = <<>> THEN <<>>
    ELSE [j \in 1..(k \div 4) |-> 0] \o BigMulSmall(a, Pow10Small[(k % 4) + 1])

RECURSIVE BigMulPow2(_, _)
\* a * 2^k, the exponent halved down to what one limb holds.
BigMulPow2(a, k) ==
    IF a = <<>> THEN <<>>
    ELSE IF k <= 12 THEN BigMulSmall(a, Pow2Small[k + 1])
    ELSE BigMulPow2(BigMulPow2(a, k \div 2), k - (k \div 2))

\* The number whose decimal digits are ds: four digits to a limb.
BigFromDigits(ds) ==
    LET n == Len(ds)
        dig(k) == IF k >= 1 THEN ds[k] ELSE 0
    IN BigTrim([j \in 1..((n + 3) \div 4) |->
                  dig(n - 4 * j + 1) * 1000 + dig(n - 4 * j + 2) * 100
                     + dig(n - 4 * j + 3) * 10 + dig(n - 4 * j + 4)])

Two52 == BigMulPow2(<<1>>, 52)
Two53 == BigMulPow2(<<1>>, 53)

RECURSIVE BigDivBits(_, _, _, _)
\* The bits hi down to lo of the quotient of a by b, as the number q they
\* spell, and the remainder r left under b * 2^lo; a < b * 2^(hi+1).
BigDivBits(a, b, hi, lo) ==
    IF hi = lo
    THEN LET bi == BigMulPow2(b, lo)
         IN IF BigCmp(a, bi) >= 0 THEN [q |-> <<1>>, r |-> BigSub(a, bi)]
            ELSE [q |-> <<>>, r |-> a]
    ELSE LET mid == (hi + lo + 1) \div 2
             top == BigDivBits(a, b, hi, mid)
             bot == BigDivBits(top.r, b, mid - 1, lo)
         IN [q |-> BigAdd(BigMulPow2(top.q, mid - lo), bot.q), r |-> bot.r]

\* 2^c <= N / Q.
Pow2LE(N, Q, c) ==
    BigCmp(BigMulPow2(Q, Max0(c)), BigMulPow2(N, Max0(-c))) <= 0

\* d * s <= r < (d + 1) * s.
IsQuoDigit(r, s, d) ==
    /\ BigCmp(BigMulSmall(s, d), r) <= 0
    /\ BigCmp(r, BigMulSmall(s, d + 1)) < 0

RECURSIVE ShortestDigits(_, _, _, _, _, _)
\* Free-format digit generation (Steele and White, Burger and Dybvig): the
\* digits, after those of acc, of the shortest decimal between
\* (r - mm) / (10 * s) and (r + mp) / (10 * s), the bounds included when the
\* significand is even, closest to r / (10 * s); r < 10 * s.
ShortestDigits(r, s, mp, mm, even, acc) ==
    LET d == CHOOSE x \in 0..9 : IsQuoDigit(r, s, x)
        r1 == BigSub(r, BigMulSmall(s, d))
        low == BigCmp(r1, mm) < (IF even THEN 1 ELSE 0)
        high == BigCmp(BigAdd(r1, mp), s) > (IF even THEN -1 ELSE 0)
    IN IF low = high
       THEN IF low /\ BigCmp(BigMulSmall(r1, 2), s) < 0 THEN Append(acc, d)
            ELSE IF low THEN Append(acc, d + 1)
            ELSE ShortestDigits(BigMulSmall(r1, 10), s, BigMulSmall(mp, 10),
                                BigMulSmall(mm, 10), even, Append(acc, d))
       ELSE Append(acc, IF high THEN d + 1 ELSE d)

\* The decimal of digits ds that is less than 10^k and not less than
\* 10^(k-1).
ShortestAt(neg, k, ds) == NumDec(neg, ds, k - Len(ds))

\* The shortest decimal between (r - mm) / s and (r + mp) / s, whose first
\* digit stands at 10^(k-1).
ShortestFrom(neg, even, r, s, mp, mm, k) ==
    ShortestAt(neg, k,
               ShortestDigits(BigMulPow10(r, Max0(-k) + 1),
                              BigMulPow10(s, Max0(k)),
                              BigMulPow10(mp, Max0(-k) + 1),
                              BigMulPow10(mm, Max0(-k) + 1), even, <<>>))

\* The same, r / s lying in 10^(p-1) .. 10^p: the upper bound may reach
\* 10^p, and the first digit then stands one place higher.
ShortestScaled(neg, even, r, s, mp, mm, p) ==
    ShortestFrom(neg, even, r, s, mp, mm,
                 IF BigCmp(BigMulPow10(BigAdd(r, mp), Max0(-p)),
                           BigMulPow10(s, Max0(p))) < (IF even THEN 0 ELSE 1)
                 THEN p ELSE p + 1)

\* The shortest decimal of the float64 mant * 2^b (mant < 2^53, and
\* mant >= 2^52 unless b = -1074), which lies in 10^(p-1) .. 10^p: the
\* shortest one nearer to it than to its neighbours, which are 2^b away, the
\* lower one 2^(b-1) when mant is 2^52.
Shortest(neg, mant, b, p) ==
    LET sh == IF mant = Two52 /\ b > -1074 THEN 2 ELSE 1
    IN ShortestScaled(neg, mant[1] % 2 = 0,
                      BigMulPow2(mant, Max0(b) + sh),
                      BigMulPow2(<<1>>, Max0(-b) + sh),
                      BigMulPow2(<<1>>, Max0(b) + sh - 1),
                      BigMulPow2(<<1>>, Max0(b)), p)

\* The float64 of significand m1 (2^53 at most, after rounding) and binary
\* exponent b: beyond the largest finite one it is an infinity.
RoundEnd(neg, p, b, m1) ==
    LET over == m1 = Two53
    IN IF m1 = <<>> THEN NumZero(neg)
       ELSE IF (IF over THEN b + 1 ELSE b) > 971 THEN GoInf(neg)
       ELSE Shortest(neg, IF over THEN Two52 ELSE m1,
                     IF over THEN b + 1 ELSE b, p)

\* The quotient qr.q, rounded to the nearest by the remainder qr.r under
\* the divisor B, a tie to the even one.
RoundUp(neg, p, b, B, qr) ==
    LET half == BigCmp(BigMulSmall(qr.r, 2), B)
    IN RoundEnd(neg, p, b,
                IF half > 0 \/ (half = 0 /\ Limb(qr.q, 1) % 2 = 1)
                THEN BigAdd(qr.q, <<1>>) ELSE qr.q)

\* N / Q in units of 2^b.
RoundAt(neg, p, N, Q, b) ==
    LET B == BigMulPow2(Q, Max0(b))
    IN RoundUp(neg, p, b, B, BigDivBits(BigMulPow2(N, Max0(-b)), B, 52, 0))

\* The binary exponent of the last place of the float64 significand for
\* N / Q, which lies in 10^(p-1) .. 10^p: 52 below that of its leading bit,
\* and -1074 at least (the subnormals).
BinExp(N, Q, p) ==
    LET lo == (((p - 1) * 33219) \div 10000) - 1
        t == CHOOSE c \in lo..(lo + 5) :
                Pow2LE(N, Q, c) /\ ~Pow2LE(N, Q, c + 1)
    IN IF t - 52 > -1074 THEN t - 52 ELSE -1074

\* The float64 nearest to ds * 10^e, ties to the even significand (the
\* rounding of strconv.ParseFloat and of the page's number parser); ds has no
\* leading zero and 10^(p-1) <= ds * 10^e < 10^p.
Round64(neg, ds, e, p) ==
    LET N == BigMulPow10(BigFromDigits(ds), Max0(e))
        Q == BigMulPow10(<<1>>, Max0(-e))
    IN RoundAt(neg, p, N, Q, BinExp(N, Q, p))

\* ds without its leading zeros.
StripLeading(ds) ==
    LET n == Len(ds)
        z == CHOOSE k \in 0..n :
                (k = n \/ ds[k + 1] # 0) /\ \A j \in 1..k : ds[j] = 0
    IN SubSeq(ds, z + 1, n)

\* ds without its trailing zeros.
StripTrailing(ds) ==
    LET n == Len(ds)
        z == CHOOSE k \in 0..n :
                (k = n \/ ds[n - k] # 0) /\ \A j \in (n - k + 1)..n : ds[j] = 0
    IN SubSeq(ds, 1, n - z)

\* The float64 the decimal text with digits ds and exponent e (ds * 10^e)
\* denotes. Beyond 10^400 it is an infinity and below 10^-400 a zero. A
\* decimal of at most 15 significant digits well inside the normal range
\* names one float64 whose shortest decimal is that same decimal; any other
\* decimal is rounded.
Float64(neg, ds, e) ==
    LET d1 == StripLeading(ds)
        p == Len(d1) + e
        d2 == StripTrailing(d1)
        e2 == e + Len(d1) - Len(d2)
    IN IF d1 = <<>> THEN NumZero(neg)
       ELSE IF p > 400 THEN GoInf(neg)
       ELSE IF p < -400 THEN NumZero(neg)
       ELSE IF Len(d2) <= 15 /\ p >= -300 /\ p <= 300
       THEN NumDec(neg, d2, e2)
       ELSE Round64(neg, d2, e2, p)

RECURSIVE IntDigits(_)
\* The decimal digits of n >= 0, as numbers.
IntDigits(n) ==
    IF n < 10 THEN <<n>> ELSE Append(IntDigits(n \div 10), n % 10)

\* ------------------------------------------------------------ JSON values
\* A payload as Go holds it after decoding into `any`, and as the page holds
\* it after JSON.parse: null, a boolean, a number, a string (a sequence of
\* characters), an array, or an object (a function from keys to values).
\* Structural equality of two values is equality of these records.
GoNull == [t |-> "null"]
GoBool(b) == [t |-> "bool", b |-> b]

\* The float64 nearest to m * 10^e, for integers m and e.
GoFloat(m, e) == Float64(m < 0, IntDigits(IF m < 0 THEN -m ELSE m), e)

\* The float64 of integral value n.
GoNum(n) == GoFloat(n, 0)
\* The float64 -0, which a request body holding -0 decodes to.
GoNegZero == NumZero(TRUE)
\* 0.1 + 0.2, the float64 0.30000000000000004: seventeen digits.
GoThreeTenths ==
    Float64(FALSE, <<3, 0, 0, 0, 0, 0, 0, 0, 0, 0, 0, 0, 0, 0, 0, 0, 4>>, -17)
GoStr(x) == [t |-> "str", s |-> x]
GoArr(e) == [t |-> "arr", e |-> e]
GoObj(m) == [t |-> "obj", m |-> m]
\* A Go value json.Marshal rejects (UnsupportedTypeError); only a direct
\* caller of Sign can pass it, as it can pass an infinity or NaN
\* (UnsupportedValueError).
GoFunc == [t |-> "func"]
\* No payload (a request that has not been bound).
NoData == [t |-> "none"]

\* {"a": 1}, the payload of the README's and the spec's example request.
ExampleObj == GoObj([k \in {<<"a">>} |-> GoNum(1)])

\* The payload a decoded request body carries (a JSON value).
JSONData == {ExampleObj}
\* Payloads only a Go caller can build: a func, alone or inside a slice, an
\* infinity, a NaN.
GoOnlyData == {GoFunc, GoArr(<<GoNum(1), GoFunc>>), GoInf(FALSE), GoNaN}

RECURSIVE Flatten(_)
\* The concatenation of a sequence of sequences.
Flatten(ss) == IF ss = <<>> THEN <<>> ELSE Head(ss) \o Flatten(Tail(ss))

DigitChars == <<"0", "1", "2", "3", "4", "5", "6", "7", "8", "9">>

RECURSIVE Digits(_)
\* The decimal digits of n >= 0.
Digits(n) ==
    IF n < 10 THEN <<DigitChars[n + 1]>>
    ELSE Digits(n \div 10) \o <<DigitChars[(n % 10) + 1]>>

\* k zeros.
Zeros(k) == [j \in 1..k |-> "0"]

\* encoding/json's text of a float64 (floatEncoder): the shortest decimal,
\* in positional form when 1e-6 <= |x| < 1e21 and in exponent form
\* otherwise, where a negative one-digit exponent loses its leading zero
\* (1e-07 is written 1e-7) and a positive exponent keeps its sign (1e+21).
\* Zero is written 0 or -0.
FormatNum(v) ==
    LET sign == IF v.neg THEN <<"-">> ELSE <<>>
        ds == [j \in 1..Len(v.n) |-> DigitChars[v.n[j] + 1]]
        k == Len(ds)
        p == k + v.e
        x == p - 1
    IN IF v.n = <<0>> THEN sign \o <<"0">>
       ELSE IF p <= -6 \/ p >= 22
       THEN sign \o <<ds[1]>>
                 \o (IF k > 1 THEN <<".">> \o SubSeq(ds, 2, k) ELSE <<>>)
                 \o (IF x < 0 THEN <<"e", "-">> \o Digits(-x)
                     ELSE <<"e", "+">> \o Digits(x))
       ELSE IF p <= 0 THEN sign \o <<"0", ".">> \o Zeros(-p) \o ds
       ELSE IF p >= k THEN sign \o ds \o Zeros(p - k)
       ELSE sign \o SubSeq(ds, 1, p) \o <<".">> \o SubSeq(ds, p + 1, k)

\* encoding/json's string escapes (appendString with escapeHTML, Go 1.21):
\* the quote and the backslash get a backslash; line feed, carriage return
\* and tab are written \n, \r, \t; every other character below U+0020, the
\* three HTML characters and U+2028, U+2029 are written \uXXXX; any other
\* character is written as it is.
EscapeChar(c) ==
    CASE c = "\"" -> <<"\\", "\"">>
      [] c = "\\" -> <<"\\", "\\">>
      [] c = "\n" -> <<"\\", "n">>
      [] c = "\r" -> <<"\\", "r">>
      [] c = "\t" -> <<"\\", "t">>
      [] c \in ControlChars \cup {"<", ">", "&", "U+2028", "U+2029"} ->
           <<"\\", "u">> \o Hex4(CharCode(c))
      [] OTHER -> <<c>>

Quote(x) ==
    <<"\"">> \o Flatten([k \in 1..Len(x) |-> EscapeChar(x[k])]) \o <<"\"">>

\* Byte order of the characters of a key: the order of their code points.
CharRank(c) == CharCode(c)

RECURSIVE KeyLE(_, _)
\* Lexicographic order of keys.
KeyLE(a, b) ==
    IF a = <<>> THEN TRUE
    ELSE IF b = <<>> THEN FALSE
    ELSE IF Head(a) # Head(b) THEN CharRank(Head(a)) < CharRank(Head(b))
    ELSE KeyLE(Tail(a), Tail(b))

RECURSIVE SortKeys(_)
\* encoding/json writes the keys of a map in sorted order.
SortKeys(S) ==
    IF S = {} THEN <<>>
    ELSE LET k == CHOOSE k \in S : \A j \in S : KeyLE(k, j)
         IN <<k>> \o SortKeys(S \ {k})

RECURSIVE JoinComma(_)
JoinComma(ss) ==
    IF ss = <<>> THEN <<>>
    ELSE IF Len(ss) = 1 THEN Head(ss)
    ELSE Head(ss) \o <<",">> \o JoinComma(Tail(ss))

RECURSIVE Marshal(_)
\* json.Marshal(v): the compact JSON text of v, as a sequence of characters.
Marshal(v) ==
    CASE v.t = "null" -> <<"n", "u", "l", "l">>
      [] v.t = "bool" -> IF v.b THEN <<"t", "r", "u", "e">>
                         ELSE <<"f", "a", "l", "s", "e">>
      [] v.t = "num" -> FormatNum(v)
      [] v.t = "str" -> Quote(v.s)
      [] v.t = "arr" ->
           <<"[">> \o JoinComma([k \in 1..Len(v.e) |-> Marshal(v.e[k])])
                   \o <<"]">>
      [] v.t = "obj" ->
           LET ks == SortKeys(DOMAIN v.m)
           IN <<"{">> \o JoinComma([k \in 1..Len(ks) |->
                            Quote(ks[k]) \o <<":">> \o Marshal(v.m[ks[k]])])
                      \o <<"}">>

RECURSIVE Marshalable(_)
\* json.Marshal returns an error for a value JSON cannot represent, wherever
\* in the payload the value is.
Marshalable(d) ==
    CASE d.t \in {"func", "inf", "nan"} -> FALSE
      [] d.t = "arr" -> \A k \in 1..Len(d.e) : Marshalable(d.e[k])
      [] d.t = "obj" -> \A k \in DOMAIN d.m : Marshalable(d.m[k])
      [] OTHER -> TRUE

\* ------------------------------------------------------------ JSON.parse
ParseFail == [ok |-> FALSE, v |-> GoNull, next |-> 0]
Parsed(v, next) == [ok |-> TRUE, v |-> v, next |-> next]

\* JSON white space: space, tab, line feed, carriage return.
WhiteSpace == {" ", "\t", "\n", "\r"}

RECURSIVE SkipWS(_, _)
\* The first position from i on that holds no white space.
SkipWS(s, i) ==
    IF i <= Len(s) /\ s[i] \in WhiteSpace THEN SkipWS(s, i + 1) ELSE i

UpperHex == <<"A", "B", "C", "D", "E", "F">>

IsHex(c) ==
    c \in {HexDigits[k] : k \in 1..Len(HexDigits)}
              \cup {UpperHex[k] : k \in 1..Len(UpperHex)}

\* The value of a hexadecimal digit of either case.
HexValue(c) ==
    IF \E k \in 1..Len(HexDigits) : HexDigits[k] = c
    THEN (CHOOSE k \in 1..Len(HexDigits) : HexDigits[k] = c) - 1
    ELSE (CHOOSE k \in 1..Len(UpperHex) : UpperHex[k] = c) + 9

RECURSIVE HexNumber(_, _)
\* The number whose hexadecimal digits are those of acc followed by h.
HexNumber(h, acc) ==
    IF h = <<>> THEN acc
    ELSE HexNumber(Tail(h), acc * 16 + HexValue(Head(h)))

\* The character a \uXXXX escape stands for, h being its four digits.
Unicode(h) == CodeToChar(HexNumber(h, 0))

\* The character a backslash followed by c stands for.
SimpleEscape(c) ==
    CASE c = "b" -> CodeToChar(8)
      [] c = "f" -> "\f"
      [] c = "n" -> "\n"
      [] c = "r" -> "\r"
      [] c = "t" -> "\t"
      [] OTHER -> c

RECURSIVE ScanString(_, _, _)
\* The string whose text starts at s[i], just after the opening quote. A
\* character below U+0020 may not stand unescaped in a string.
ScanString(s, i, acc) ==
    IF i > Len(s) THEN ParseFail
    ELSE IF s[i] = "\"" THEN Parsed(GoStr(acc), i + 1)
    ELSE IF s[i] \in ControlChars THEN ParseFail
    ELSE IF s[i] # "\\" THEN ScanString(s, i + 1, Append(acc, s[i]))
    ELSE IF i + 1 > Len(s) THEN ParseFail
    ELSE IF s[i + 1] \in {"\"", "\\", "/", "b", "f", "n", "r", "t"}
    THEN ScanString(s, i + 2, Append(acc, SimpleEscape(s[i + 1])))
    ELSE IF s[i + 1] = "u" /\ i + 5 <= Len(s)
                /\ \A k \in (i + 2)..(i + 5) : IsHex(s[k])
    THEN ScanString(s, i + 6, Append(acc, Unicode(SubSeq(s, i + 2, i + 5))))
    ELSE ParseFail

DigitValue(c) == (CHOOSE k \in 1..10 : DigitChars[k] = c) - 1
IsDigit(c) == \E k \in 1..10 : DigitChars[k] = c

\* The first position from i on that holds no digit.
DigitsEnd(s, i) ==
    CHOOSE j \in i..(Len(s) + 1) :
        /\ j = Len(s) + 1 \/ ~IsDigit(s[j])
        /\ \A k \in i..(j - 1) : IsDigit(s[k])

\* The digits from s[i] on, and the position after them.
ScanDigits(s, i) ==
    LET j == DigitsEnd(s, i)
    IN [ds |-> [k \in 1..(j - i) |-> DigitValue(s[i + k - 1])], next |-> j]

\* Exponents are counted up to ExpCap: with a larger one a number text
\* shorter than ExpCap - 400 characters is an infinity or a zero all the
\* same.
ExpCap == 100000

RECURSIVE ExpValue(_, _)
\* The number whose digits are those of acc followed by ds, or a number
\* that is ExpCap at least when that number is.
ExpValue(ds, acc) ==
    IF ds = <<>> \/ acc >= ExpCap THEN acc
    ELSE ExpValue(Tail(ds), acc * 10 + Head(ds))

\* A number literal at s[i]: an optional minus; 0 or a digit string without
\* a leading zero; an optional fraction (a point and at least one digit);
\* an optional exponent (e or E, an optional sign, at least one digit). Its
\* value is the float64 nearest to the decimal.
ScanNumber(s, i) ==
    LET neg == s[i] = "-"
        j == IF neg THEN i + 1 ELSE i
    IN IF j > Len(s) \/ ~IsDigit(s[j]) THEN ParseFail
       ELSE IF s[j] = "0" /\ j + 1 <= Len(s) /\ IsDigit(s[j + 1])
       THEN ParseFail
       ELSE
         LET int == ScanDigits(s, j)
             hasFrac == int.next <= Len(s) /\ s[int.next] = "."
             frac == IF hasFrac THEN ScanDigits(s, int.next + 1)
                     ELSE [ds |-> <<>>, next |-> int.next]
             hasExp == frac.next <= Len(s) /\ s[frac.next] \in {"e", "E"}
             signed == hasExp /\ frac.next + 1 <= Len(s)
                              /\ s[frac.next + 1] \in {"+", "-"}
             expNeg == signed /\ s[frac.next + 1] = "-"
             exp == IF hasExp
                    THEN ScanDigits(s, frac.next + (IF signed THEN 2 ELSE 1))
                    ELSE [ds |-> <<>>, next |-> frac.next]
             ev == ExpValue(StripLeading(exp.ds), 0)
             e10 == (IF expNeg THEN -ev ELSE ev) - Len(frac.ds)
         IN IF hasFrac /\ frac.ds = <<>> THEN ParseFail
            ELSE IF hasExp /\ exp.ds = <<>> THEN ParseFail
            ELSE Parsed(Float64(neg, int.ds \o frac.ds, e10), exp.next)

\* The literal lit at s[i].
ScanLiteral(s, i, lit, v) ==
    IF i + Len(lit) - 1 <= Len(s) /\ SubSeq(s, i, i + Len(lit) - 1) = lit
    THEN Parsed(v, i + Len(lit))
    ELSE ParseFail

RECURSIVE ParseValue(_, _)
RECURSIVE ParseElems(_, _, _)
RECURSIVE ParseMembers(_, _, _)

\* The elements of an array from s[i] on, after those in acc.
ParseElems(s, i, acc) ==
    LET r == ParseValue(s, i) IN
    IF ~r.ok THEN ParseFail
    ELSE LET j == SkipWS(s, r.next) IN
    IF j > Len(s) THEN ParseFail
    ELSE IF s[j] = "," THEN ParseElems(s, j + 1, Append(acc, r.v))
    ELSE IF s[j] = "]" THEN Parsed(GoArr(Append(acc, r.v)), j + 1)
    ELSE ParseFail

\* The members of an object from s[i0] on, after those in acc; a repeated
\* key keeps its last value.
ParseMembers(s, i0, acc) ==
    LET i == SkipWS(s, i0) IN
    IF i > Len(s) \/ s[i] # "\"" THEN ParseFail
    ELSE LET k == ScanString(s, i + 1, <<>>) IN
    IF ~k.ok THEN ParseFail
    ELSE LET c == SkipWS(s, k.next) IN
    IF c > Len(s) \/ s[c] # ":" THEN ParseFail
    ELSE LET r == ParseValue(s, c + 1) IN
    IF ~r.ok THEN ParseFail
    ELSE LET j == SkipWS(s, r.next)
             m == [x \in DOMAIN acc \cup {k.v.s} |->
                     IF x = k.v.s THEN r.v ELSE acc[x]]
         IN IF j > Len(s) THEN ParseFail
            ELSE IF s[j] = "," THEN ParseMembers(s, j + 1, m)
            ELSE IF s[j] = "}" THEN Parsed(GoObj(m), j + 1)
            ELSE ParseFail

\* The JSON value whose text starts at s[i0], after any white space.
ParseValue(s, i0) ==
    LET i == SkipWS(s, i0) IN
    IF i > Len(s) THEN ParseFail
    ELSE CASE s[i] = "n" -> ScanLiteral(s, i, <<"n", "u", "l", "l">>, GoNull)
           [] s[i] = "t" ->
                ScanLiteral(s, i, <<"t", "r", "u", "e">>, GoBool(TRUE))
           [] s[i] = "f" ->
                ScanLiteral(s, i, <<"f", "a", "l", "s", "e">>, GoBool(FALSE))
           [] s[i] = "\"" -> ScanString(s, i + 1, <<>>)
           [] s[i] = "[" ->
                LET j == SkipWS(s, i + 1)
                IN IF j <= Len(s) /\ s[j] = "]"
                   THEN Parsed(GoArr(<<>>), j + 1)
                   ELSE ParseElems(s, i + 1, <<>>)
           [] s[i] = "{" ->
                LET j == SkipWS(s, i + 1)
                IN IF j <= Len(s) /\ s[j] = "}"
                   THEN Parsed(GoObj([x \in {} |-> GoNull]), j + 1)
                   ELSE ParseMembers(s, i + 1, [x \in {} |-> GoNull])
           [] s[i] = "-" \/ IsDigit(s[i]) -> ScanNumber(s, i)
           [] OTHER -> ParseFail

\* JSON.parse(text): the value, or a SyntaxError (ok = FALSE) when the text
\* is not one JSON value.
JSONParse(text) ==
    LET r == ParseValue(text, 1)
    IN IF r.ok /\ SkipWS(text, r.next) = Len(text) + 1 THEN r ELSE ParseFail

VARIABLES
    signer,     \* [Inst -> Signer]: the struct each NewSigner call builds
    npc,        \* [Inst -> position of that NewSigner call]
    ret,        \* [Inst -> the *Signer NewSigner returned: NilSigner or i]
    stagesRun,  \* [Inst -> the launch-sequence calls made, in order]
    live,       \* [Inst -> handles whose external resource is still open]
    cookieErr,  \* [Inst -> context.Cookies() returned an error]
    mpc,        \* position of main()
    lpc,        \* position of the ListenAndServe goroutine
    srvShut,    \* srv.Shutdown has been called
    exitCode,   \* -1 while the process runs, else its exit status
    req,        \* [Req -> one /sign request or one direct Sign call]
    cpc,        \* position of Signer.Close
    closeLog,   \* the release calls Close has made, in order
    closeFailed,\* the release calls that returned an error
    firstErr,   \* Close's firstErr
    closeCalls  \* number of times Close was invoked

vars == <<signer, npc, ret, stagesRun, live, cookieErr, mpc, lpc, srvShut, exitCode,
          req, cpc, closeLog, closeFailed, firstErr, closeCalls>>

libVars == <<signer, npc, ret, stagesRun, live, cookieErr>>
mainVars == <<mpc, lpc, srvShut, exitCode>>
closeVars == <<cpc, closeLog, closeFailed, firstErr, closeCalls>>

\* ---------------------------------------------------------------- Signer
\* type Signer struct: a handle field is TRUE when non-nil.
ZeroSigner ==
    [pw |-> FALSE, browser |-> FALSE, context |-> FALSE, page |-> FALSE,
     stealthJS |-> FALSE, initOnce |-> FALSE, initErr |-> "nil"]

Alive == exitCode = -1

\* ------------------------------------------------------------- NewSigner
\* The position after the launch-sequence call at.
NextStage(at) ==
    LET k == CHOOSE n \in 1..Len(StageOrder) : StageOrder[n] = at
    IN IF k < Len(StageOrder) THEN StageOrder[k + 1] ELSE "ret"

\* Mutation of FailStage: the return after setting s.initErr is missing, so
\* the launch sequence carries on with the next call.
FailStageNoReturn(i, e) ==
    /\ signer' = [signer EXCEPT ![i].initErr = e]
    /\ npc' = [npc EXCEPT ![i] = NextStage(npc[i])]
    /\ UNCHANGED live

\* A stage's failure: s.initErr = fmt.Errorf("<stage> ...: %w", err); return
\* (out of the Once body, to the check of s.initErr).
FailStage(i, e) ==
    /\ signer' = [signer EXCEPT ![i].initErr = e]
    /\ npc' = [npc EXCEPT ![i] = "ret"]
    /\ UNCHANGED live

\* A stage's success: the handle h (if the stage yields one) is stored in the
\* Signer and the call moves on to the next stage.
PassStage(i, h, next) ==
    /\ signer' = IF h = "none" THEN signer
                 ELSE [signer EXCEPT ![i] = [@ EXCEPT ![h] = TRUE]]
    /\ live' = IF h = "none" THEN live ELSE [live EXCEPT ![i] = @ \cup {h}]
    /\ npc' = [npc EXCEPT ![i] = next]

\* var s Signer; s.initOnce.Do(func() { s.stealthJS = stealthJSPath ...
NewSignerEnter(i) ==
    /\ Alive
    /\ npc[i] = "idle"
    /\ ~signer[i].initOnce
    /\ signer' = [signer EXCEPT ![i] = [@ EXCEPT !.initOnce = TRUE,
                                                  !.stealthJS = TRUE]]
    /\ npc' = [npc EXCEPT ![i] = "run"]
    /\ UNCHANGED <<ret, stagesRun, live, cookieErr, mainVars, req, closeVars>>

\* One fallible call of the launch sequence: at position at, yielding handle
\* h, failing with error e, continuing at next.
Stage(i, at, h, e, next) ==
    /\ Alive
    /\ npc[i] = at
    /\ stagesRun' = [stagesRun EXCEPT ![i] = Append(@, at)]
    /\ \E ok \in BOOLEAN :
          IF ok THEN PassStage(i, h, next) ELSE FailStage(i, e)
    /\ UNCHANGED <<ret, cookieErr, mainVars, req, closeVars>>

\* s.pw, err = playwright.Run()
StageRun(i) == Stage(i, "run", "pw", "ErrRun", "launch")

\* s.browser, err = s.pw.Chromium.Launch(...)
StageLaunch(i) == Stage(i, "launch", "browser", "ErrLaunch", "newcontext")

\* s.context, err = s.browser.NewContext()
StageNewContext(i) ==
    Stage(i, "newcontext", "context", "ErrNewContext", "stat")

\* os.Stat(stealthJSPath)
StageStat(i) == Stage(i, "stat", "none", "ErrStat", "addinitscript")

\* err = s.context.AddInitScript(...)
StageAddInitScript(i) ==
    Stage(i, "addinitscript", "none", "ErrAddInitScript", "newpage")

\* s.page, err = s.context.NewPage()
StageNewPage(i) == Stage(i, "newpage", "page", "ErrNewPage", "goto")

\* s.page.Goto("https://www.xiaohongshu.com"): the page handle is already
\* stored when this fails.
StageGoto(i) == Stage(i, "goto", "none", "ErrGoto", "cookies")

\* cookies, err := s.context.Cookies(): the a1 cookie is logged, an error is
\* only warned about; either way the Once body ends.
StageCookies(i) ==
    /\ Alive
    /\ npc[i] = "cookies"
    /\ stagesRun' = [stagesRun EXCEPT ![i] = Append(@, "cookies")]
    /\ \E ok \in BOOLEAN : cookieErr' = [cookieErr EXCEPT ![i] = ~ok]
    /\ npc' = [npc EXCEPT ![i] = "ret"]
    /\ UNCHANGED <<signer, ret, live, mainVars, req, closeVars>>

\* Mutation of NewSignerReturn: the handle is returned together with the
\* error ("return &s, s.initErr").
NewSignerReturnBoth(i) ==
    /\ Alive
    /\ npc[i] = "ret"
    /\ ret' = [ret EXCEPT ![i] = i]
    /\ npc' = [npc EXCEPT ![i] = "done"]
    /\ UNCHANGED <<signer, stagesRun, live, cookieErr, mainVars, req,
                   closeVars>>

\* if s.initErr != nil { return nil, s.initErr }; return &s, nil
NewSignerReturn(i) ==
    /\ Alive
    /\ npc[i] = "ret"
    /\ ret' = [ret EXCEPT ![i] = IF signer[i].initErr # "nil"
                                 THEN NilSigner ELSE i]
    /\ npc' = [npc EXCEPT ![i] = "done"]
    /\ UNCHANGED <<signer, stagesRun, live, cookieErr, mainVars, req,
                   closeVars>>

NewSigner(i) ==
    \/ NewSignerEnter(i)
    \/ StageRun(i)
    \/ StageLaunch(i)
    \/ StageNewContext(i)
    \/ StageStat(i)
    \/ StageAddInitScript(i)
    \/ StageNewPage(i)
    \/ StageGoto(i)
    \/ StageCookies(i)
    \/ NewSignerReturn(i)

\* The error NewSigner returned to its caller.
ReturnedErr(i) == signer[i].initErr

\* Number of launch sequences started (calls of playwright.Run).
Launches == Cardinality({i \in Inst : stagesRun[i] # <<>>})

\* ------------------------------------------------------ in-page JS values
\* What page.Evaluate hands back for a JS value: t is its Go dynamic type
\* (a JS string arrives as a Go string, a number as int/float64, a missing
\* key is a nil interface).
JSAbsent == [t |-> "nil", v |-> ""]
JSStr(x) == [t |-> "string", v |-> x]
JSNum == [t |-> "number", v |-> "7"]

Keys == {"X-s", "X-t", "x-s", "x-t"}
NoKeys == [k \in Keys |-> JSAbsent]

\* JS objects (Go map[string]any): the well-shaped object, and objects with
\* "X-s" or "X-t" missing, under the wrong case, or holding a number.
JSMap(xs, xt, lower) == [k \in Keys |->
    IF k = "X-s" THEN xs ELSE IF k = "X-t" THEN xt
    ELSE IF k = "x-s" THEN lower ELSE JSAbsent]

JSMaps ==
    {JSMap(JSStr("abc"), JSStr("123"), JSAbsent),
     JSMap(JSStr("abc"), JSAbsent, JSAbsent),
     JSMap(JSAbsent, JSStr("123"), JSAbsent),
     JSMap(JSAbsent, JSStr("123"), JSStr("abc")),
     JSMap(JSNum, JSStr("123"), JSAbsent),
     JSMap(JSStr("abc"), JSNum, JSAbsent),
     NoKeys}

\* Values the in-page function can return: an object, or a non-object.
EvalValues ==
    {[kind |-> "map", m |-> m] : m \in JSMaps}
        \cup {[kind |-> k, m |-> NoKeys] : k \in {"null", "string"}}
NoRes == [kind |-> "none", m |-> NoKeys]

\* xs, _ := m["X-s"].(string): the string under key k, or "" when the key is
\* missing or its value is no string (the ok flag is discarded).
StringAt(m, k) == IF m[k].t = "string" THEN m[k].v ELSE ""

\* Mutation of Extract: the tokens are read under the lower-case names of
\* the SignResult JSON tags.
ExtractLowerKeys(res) ==
    IF res.kind # "map"
    THEN [outcome |-> "ErrShape", xs |-> "", xt |-> ""]
    ELSE [outcome |-> "ok", xs |-> StringAt(res.m, "x-s"),
          xt |-> StringAt(res.m, "x-t")]

\* m, ok := res.(map[string]any); if !ok { return nil, errors.New(...) };
\* xs, _ := ...; xt, _ := ...; return &SignResult{XS: xs, XT: xt}, nil
Extract(res) ==
    IF res.kind # "map"
    THEN [outcome |-> "ErrShape", xs |-> "", xt |-> ""]
    ELSE [outcome |-> "ok", xs |-> StringAt(res.m, "X-s"),
          xt |-> StringAt(res.m, "X-t")]

\* ------------------------------------------------------------------ Sign
IdleReq ==
    [pc |-> "idle", decoded |-> FALSE, caller |-> 0, target |-> NilSigner,
     uri |-> "", data |-> NoData, probes |-> 0, exists |-> "",
     marshals |-> 0, dataJSON |-> <<>>, evals |-> 0, argURI |-> "",
     argData |-> NoData, res |-> NoRes,
     outcome |-> "none", xs |-> "", xt |-> "",
     written |-> 0, status |-> 0, bodyXS |-> "", bodyXT |-> "",
     cancelled |-> ""]

\* Sign returns to its caller with the given outcome and tokens.
SignReturns(r, outcome, xs, xt) ==
    [req[r] EXCEPT !.pc = "signed", !.outcome = outcome, !.xs = xs, !.xt = xt]

\* page.Evaluate can answer only while the page is open.
PageOpen(t) == "page" \in live[t]

\* What the probe "() => typeof window._webmsxyw === 'function'" can yield.
ProbeOutcomes(t) ==
    IF PageOpen(t) THEN {"true", "false", "error"} ELSE {"error"}

\* Mutation of AfterProbe: an absent function makes Sign probe again.
AfterProbeRetry(r, p) ==
    IF p = "error" THEN SignReturns(r, "ErrProbe", "", "")
    ELSE IF p # "true" THEN [req[r] EXCEPT !.pc = "sign"]
    ELSE [req[r] EXCEPT !.pc = "marshal"]

\* Mutation of AfterProbe: the check "exists != true" is missing.
AfterProbeUnchecked(r, p) ==
    IF p = "error" THEN SignReturns(r, "ErrProbe", "", "")
    ELSE [req[r] EXCEPT !.pc = "marshal"]

\* After the probe: exists != true and the probe's own error both return.
AfterProbe(r, p) ==
    IF p = "error" THEN SignReturns(r, "ErrProbe", "", "")
    ELSE IF p # "true" THEN SignReturns(r, "ErrAbsent", "", "")
    ELSE [req[r] EXCEPT !.pc = "marshal"]

\* Sign, from its entry to the return of the probe: a nil receiver panics on
\* s.page, a nil page returns an error, otherwise the probe is evaluated.
SignProbe(r) ==
    /\ Alive
    /\ req[r].pc = "sign"
    /\ LET t == req[r].target IN
         IF t = NilSigner
         THEN req' = [req EXCEPT ![r] = SignReturns(r, "panic", "", "")]
         ELSE IF ~signer[t].page
         THEN req' = [req EXCEPT ![r] = SignReturns(r, "ErrNoPage", "", "")]
         ELSE \E p \in ProbeOutcomes(t) :
                req' = [req EXCEPT
                          ![r] = [AfterProbe(r, p) EXCEPT !.probes = @ + 1,
                                                          !.exists = p]]
    /\ UNCHANGED <<libVars, mainVars, closeVars>>

\* page.Evaluate returned an error.
EvalError == [kind |-> "error", m |-> NoKeys]

\* What the signing evaluation can yield: a value, or an error (a JS
\* exception, or a page that is closed).
EvalOutcomes(t) ==
    IF PageOpen(t) THEN EvalValues \cup {EvalError} ELSE {EvalError}

\* The ways the signing evaluation can run on a text that parsed or not:
\* what page.Evaluate yields, and whether the in-page function was called.
\* A value comes from a call; an error comes from a call that threw, or from
\* an evaluation that ended before the call (a closed page, a SyntaxError of
\* JSON.parse, window._webmsxyw no longer a function).
EvalRuns(t, parsed) ==
    {x \in [res : EvalOutcomes(t), called : BOOLEAN] :
        /\ x.called => PageOpen(t) /\ parsed
        /\ x.res # EvalError => x.called}

\* Mutation of PageCallArg: the page expression hands dataStr to the signing
\* function without JSON.parse.
PageCallArgUnparsed(dataStr) == Parsed(GoStr(dataStr), Len(dataStr) + 1)

\* ([url, dataStr]) => window._webmsxyw(url, JSON.parse(dataStr)): the second
\* argument of the in-page call; a SyntaxError ends the evaluation before
\* the call.
PageCallArg(dataStr) == JSONParse(dataStr)

\* After the signing evaluation: its error returns, else the result is
\* extracted.
AfterEval(r, res) ==
    IF res.kind = "error" THEN SignReturns(r, "ErrEval", "", "")
    ELSE LET e == Extract(res) IN SignReturns(r, e.outcome, e.xs, e.xt)

\* Mutation of SignEvaluate: Sign looks at ctx before the evaluation and
\* returns ctx.Err() when the request was cancelled.
SignEvaluateCtx(r) ==
    /\ Alive
    /\ req[r].pc = "marshal"
    /\ IF req[r].cancelled # ""
       THEN req' = [req EXCEPT ![r] = SignReturns(r, "ErrEval", "", "")]
       ELSE \E res \in EvalOutcomes(req[r].target) :
              req' = [req EXCEPT
                        ![r] = [AfterEval(r, res) EXCEPT
                                  !.marshals = @ + 1,
                                  !.dataJSON = Marshal(req[r].data),
                                  !.evals = @ + 1,
                                  !.argURI = req[r].uri,
                                  !.argData = req[r].data,
                                  !.res = res]]
    /\ UNCHANGED <<libVars, mainVars, closeVars>>

\* Sign, from json.Marshal to its return: a payload that does not marshal
\* returns an error, otherwise the in-page function is evaluated on
\* [uri, string(dataJSON)] and the result extracted.
SignEvaluate(r) ==
    /\ Alive
    /\ req[r].pc = "marshal"
    /\ IF ~Marshalable(req[r].data)
       THEN req' = [req EXCEPT
                      ![r] = [SignReturns(r, "ErrMarshal", "", "") EXCEPT
                                !.marshals = @ + 1]]
       ELSE LET dataJSON == Marshal(req[r].data)
                arg == PageCallArg(dataJSON)
            IN \E run \in EvalRuns(req[r].target, arg.ok) :
                 req' = [req EXCEPT
                           ![r] = [AfterEval(r, run.res) EXCEPT
                                     !.marshals = @ + 1,
                                     !.dataJSON = dataJSON,
                                     !.evals = @ + 1,
                                     !.argURI = IF run.called THEN req[r].uri
                                                ELSE "",
                                     !.argData = IF run.called THEN arg.v
                                                 ELSE NoData,
                                     !.res = run.res]]
    /\ UNCHANGED <<libVars, mainVars, closeVars>>

\* --------------------------------------------------------------- gateway
\* Mutation of StatusFor: the handler does not look at Sign's error.
StatusForIgnoringErr(outcome) == 200

\* The status the handler answers a Sign outcome with; gin.Recovery answers
\* a panic with 500.
StatusFor(outcome) == IF outcome = "ok" THEN 200 ELSE 500

\* c.JSON(status, ...): one response written.
Respond(r, rec, status, xs, xt) ==
    [rec EXCEPT !.pc = "done", !.written = @ + 1, !.status = status,
                !.bodyXS = xs, !.bodyXT = xt]

\* Mutation of HandlerBind: the return after the 400 response is missing, so
\* Sign is called with the zero SignParams.
HandlerBindNoReturn(r) ==
    /\ Alive
    /\ req[r].pc = "reading"
    /\ \E decoded \in BOOLEAN, u \in URIs, d \in JSONData :
         req' = [req EXCEPT ![r] =
                   IF ~decoded
                   THEN [Respond(r, req[r], 400, "", "") EXCEPT
                           !.pc = "sign", !.caller = MainInst,
                           !.target = ret[MainInst], !.data = GoNull]
                   ELSE [req[r] EXCEPT !.pc = "sign",
                                       !.decoded = TRUE,
                                       !.caller = MainInst,
                                       !.target = ret[MainInst],
                                       !.uri = u, !.data = d]]
    /\ UNCHANGED <<libVars, mainVars, closeVars>>

\* The listening server accepts a POST /sign request and starts its handler,
\* which blocks in c.ShouldBindJSON until the body has been read.
HandlerAccept(r) ==
    /\ Alive
    /\ lpc = "listening"
    /\ req[r].pc = "idle"
    /\ req' = [req EXCEPT ![r].pc = "reading"]
    /\ UNCHANGED <<libVars, mainVars, closeVars>>

\* POST /sign, from the end of the body read to the call of signer.Sign: a
\* body that does not bind is answered 400, otherwise Sign is called on the
\* registered signer. Neither Shutdown nor Close stops a handler that runs.
HandlerBind(r) ==
    /\ Alive
    /\ req[r].pc = "reading"
    /\ \E decoded \in BOOLEAN, u \in URIs, d \in JSONData :
         req' = [req EXCEPT ![r] =
                   IF ~decoded
                   THEN Respond(r, req[r], 400, "", "")
                   ELSE [req[r] EXCEPT !.pc = "sign",
                                       !.decoded = TRUE,
                                       !.caller = MainInst,
                                       !.target = ret[MainInst],
                                       !.uri = u, !.data = d]]
    /\ UNCHANGED <<libVars, mainVars, closeVars>>

\* POST /sign, after signer.Sign returned: 500 on an error, else 200 with
\* the SignResult.
HandlerRespond(r) ==
    /\ Alive
    /\ req[r].pc = "signed"
    /\ LET st == StatusFor(req[r].outcome) IN
         req' = [req EXCEPT ![r] =
                   Respond(r, [req[r] EXCEPT !.res = NoRes], st,
                           IF st = 200 THEN req[r].xs ELSE "",
                           IF st = 200 THEN req[r].xt ELSE "")]
    /\ UNCHANGED <<libVars, mainVars, closeVars>>

\* The inbound request's context (ctx := c.Request.Context()) is cancelled,
\* e.g. by the client disconnecting, while the handler runs; the position at
\* that moment is noted. Sign receives ctx and never reads it.
ClientCancel(r) ==
    /\ Alive
    /\ req[r].pc \in {"reading", "sign", "marshal", "signed"}
    /\ req[r].cancelled = ""
    /\ req' = [req EXCEPT ![r].cancelled = req[r].pc]
    /\ UNCHANGED <<libVars, mainVars, closeVars>>

\* A direct caller of package xhs calls Sign on the handle its NewSigner call
\* returned (nil after a failed initialization), with any Go payload.
ClientSign(r) ==
    /\ Alive
    /\ req[r].pc = "idle"
    /\ \E c \in Inst, u \in URIs, d \in JSONData \cup GoOnlyData :
         /\ npc[c] = "done"
         /\ req' = [req EXCEPT ![r] = [@ EXCEPT !.pc = "sign", !.caller = c,
                                                !.target = ret[c],
                                                !.uri = u, !.data = d]]
    /\ UNCHANGED <<libVars, mainVars, closeVars>>

\* Request paths and payloads for the payload round trip.
PayloadURIs == {"/api/foo", "/api/bar"}

PayloadStrs ==
    {<<>>, <<"a">>, <<"a", "\"", "b">>, <<"<", "\\", "&">>,
     <<"a", "\n", "\t">>, <<"\f", "U+2028", "/">>}

PayloadScalars ==
    {GoNull, GoBool(TRUE), GoBool(FALSE), GoNum(0), GoNum(7), GoNum(-120),
     GoFloat(15, -1), GoFloat(-1, -7), GoFloat(1, 21), GoNegZero,
     GoThreeTenths}
        \cup {GoStr(x) : x \in PayloadStrs}

PayloadMembers == {GoNull, GoNum(-120), GoStr(<<"a", "\"", "b">>)}

PayloadKeys == {<<"a">>, <<"b">>, <<"b", "a">>}

Payloads ==
    PayloadScalars
        \cup {GoArr(<<>>)}
        \cup {GoArr(<<x>>) : x \in PayloadScalars}
        \cup {GoArr(<<x, y>>) : x \in PayloadMembers, y \in PayloadMembers}
        \cup {GoObj(m) : m \in UNION {[K -> PayloadMembers] :
                                        K \in SUBSET PayloadKeys}}
        \cup {ExampleObj, GoFloat(5, -324),
              GoObj([k \in {<<"b">>} |-> GoArr(<<GoNum(7), ExampleObj>>)]),
              GoArr(<<ExampleObj, GoArr(<<>>), GoStr(<<">">>)>>),
              GoObj([k \in {<<"b", "\n">>, <<"B">>} |-> GoFloat(-25, -2)])}

\* A caller of Sign on the initialized engine, with any request path and any
\* JSON payload.
PayloadSign(r) ==
    /\ Alive
    /\ req[r].pc = "idle"
    /\ npc[MainInst] = "done"
    /\ ret[MainInst] = MainInst
    /\ \E u \in PayloadURIs, d \in Payloads :
         req' = [req EXCEPT ![r] = [@ EXCEPT !.pc = "sign",
                                             !.caller = MainInst,
                                             !.target = ret[MainInst],
                                             !.uri = u, !.data = d]]
    /\ UNCHANGED <<libVars, mainVars, closeVars>>

\* ----------------------------------------------------------------- Close
\* Mutation of RememberFirst: every error overwrites firstErr.
RememberLast(first, e) == e

\* if firstErr == nil { firstErr = fmt.Errorf(...) }
RememberFirst(first, e) == IF first = "nil" THEN e ELSE first

\* The resources a successful release call takes down with it.
Releases(h) ==
    CASE h = "page" -> {"page"}
      [] h = "context" -> {"page", "context"}
      [] h = "browser" -> {"page", "context", "browser"}
      [] h = "pw" -> Handles

\* One step of Close on Signer t: if the handle is non-nil its release call
\* is made; an error is logged and remembered if it is the first; the next
\* step follows either way.
CloseStep(t, h, next) ==
    /\ Alive
    /\ cpc = h
    /\ IF signer[t][h]
       THEN /\ closeLog' = Append(closeLog, h)
            /\ \E ok \in BOOLEAN :
                 IF ok
                 THEN /\ live' = [live EXCEPT ![t] = @ \ Releases(h)]
                      /\ UNCHANGED <<closeFailed, firstErr>>
                 ELSE /\ closeFailed' = closeFailed \cup {h}
                      /\ firstErr' = RememberFirst(firstErr, h)
                      /\ UNCHANGED live
       ELSE UNCHANGED <<closeLog, live, closeFailed, firstErr>>
    /\ cpc' = next
    /\ UNCHANGED <<signer, npc, ret, stagesRun, cookieErr, mainVars, req,
                   closeCalls>>

\* if s.page != nil { s.page.Close() ... }
ClosePage == CloseStep(MainInst, "page", "context")
\* if s.context != nil { s.context.Close() ... }
CloseContext == CloseStep(MainInst, "context", "browser")
\* if s.browser != nil { s.browser.Close() ... }
CloseBrowser == CloseStep(MainInst, "browser", "pw")
\* if s.pw != nil { s.pw.Stop() ... }; return firstErr
ClosePw == CloseStep(MainInst, "pw", "done")

\* ------------------------------------------------------------------ main
\* Mutation of MainInitCheck: the error of NewSigner is not checked.
MainInitCheckIgnoresErr ==
    /\ Alive
    /\ mpc = "init"
    /\ npc[MainInst] = "done"
    /\ mpc' = "waitquit"
    /\ lpc' = "start"
    /\ UNCHANGED <<libVars, srvShut, exitCode, req, closeVars>>

\* signer, err := xhs.NewSigner(...); if err != nil { os.Exit(1) };
\* otherwise the router is built, the routes registered and the
\* ListenAndServe goroutine started.
MainInitCheck ==
    /\ Alive
    /\ mpc = "init"
    /\ npc[MainInst] = "done"
    /\ IF ReturnedErr(MainInst) # "nil"
       THEN /\ exitCode' = 1
            /\ mpc' = "exited"
            /\ UNCHANGED <<lpc>>
       ELSE /\ mpc' = "waitquit"
            /\ lpc' = "start"
            /\ UNCHANGED <<exitCode>>
    /\ UNCHANGED <<libVars, srvShut, req, closeVars>>

\* go func() { if err := srv.ListenAndServe(); err != nil &&
\* err != http.ErrServerClosed { os.Exit(1) } }(): after Shutdown the call
\* returns ErrServerClosed; otherwise it listens, or fails and exits.
ListenAndServe ==
    /\ Alive
    /\ lpc = "start"
    /\ IF srvShut
       THEN lpc' = "closed" /\ UNCHANGED exitCode
       ELSE \E ok \in BOOLEAN :
              IF ok THEN lpc' = "listening" /\ UNCHANGED exitCode
              ELSE lpc' = "failed" /\ exitCode' = 1
    /\ UNCHANGED <<libVars, mpc, srvShut, req, closeVars>>

\* <-quit; srv.Shutdown(ctx) is called: the listener closes, ListenAndServe
\* returns ErrServerClosed.
MainQuit ==
    /\ Alive
    /\ mpc = "waitquit"
    /\ mpc' = "shutdown"
    /\ srvShut' = TRUE
    /\ lpc' = IF lpc = "listening" THEN "closed" ELSE lpc
    /\ UNCHANGED <<libVars, exitCode, req, closeVars>>

\* Requests whose handler has not returned.
InFlight ==
    {r \in Req : req[r].pc \in {"reading", "sign", "marshal", "signed"}}

\* srv.Shutdown returns, with nil once no handler is running or with the
\* context's error when the 5 s deadline passes first (logged only), and
\* signer.Close() is called.
MainShutdownReturn ==
    /\ Alive
    /\ mpc = "shutdown"
    /\ mpc' = "closing"
    /\ cpc' = "page"
    /\ closeCalls' = closeCalls + 1
    /\ UNCHANGED <<libVars, lpc, srvShut, exitCode, req, closeLog,
                   closeFailed, firstErr>>

\* Close returned; its error is logged and main returns.
MainExit ==
    /\ Alive
    /\ mpc = "closing"
    /\ cpc = "done"
    /\ mpc' = "exited"
    /\ exitCode' = 0
    /\ UNCHANGED <<libVars, lpc, srvShut, req, closeVars>>

\* --------------------------------------------------------- specifications
Init ==
    /\ signer = [i \in Inst |-> ZeroSigner]
    /\ npc = [i \in Inst |-> "idle"]
    /\ ret = [i \in Inst |-> NilSigner]
    /\ stagesRun = [i \in Inst |-> <<>>]
    /\ live = [i \in Inst |-> {}]
    /\ cookieErr = [i \in Inst |-> FALSE]
    /\ mpc = "init"
    /\ lpc = "none"
    /\ srvShut = FALSE
    /\ exitCode = -1
    /\ req = [r \in Req |-> IdleReq]
    /\ cpc = "idle"
    /\ closeLog = <<>>
    /\ closeFailed = {}
    /\ firstErr = "nil"
    /\ closeCalls = 0

Next ==
    \/ NewSigner(MainInst)
    \/ MainInitCheck
    \/ ListenAndServe
    \/ MainQuit
    \/ MainShutdownReturn
    \/ ClosePage
    \/ CloseContext
    \/ CloseBrowser
    \/ ClosePw
    \/ MainExit
    \/ \E r \in Req : HandlerAccept(r)
    \/ \E r \in Req : HandlerBind(r)
    \/ \E r \in Req : SignProbe(r)
    \/ \E r \in Req : SignEvaluate(r)
    \/ \E r \in Req : HandlerRespond(r)

Spec == Init /\ [][Next]_vars

NextLib ==
    \/ \E i \in Inst : NewSigner(i)
    \/ \E r \in Req : ClientSign(r)
    \/ \E r \in Req : SignProbe(r)
    \/ \E r \in Req : SignEvaluate(r)

SpecLib == Init /\ [][NextLib]_vars

\* One Sign call on the engine of a successful NewSigner, over the payloads.
NextPayload ==
    \/ NewSigner(MainInst)
    \/ PayloadSign(1)
    \/ SignProbe(1)
    \/ SignEvaluate(1)

SpecPayload == Init /\ [][NextPayload]_vars

\* The process while it serves, with requests whose context is cancelled.
NextCancel ==
    \/ NewSigner(MainInst)
    \/ MainInitCheck
    \/ ListenAndServe
    \/ \E r \in Req : HandlerAccept(r)
    \/ \E r \in Req : HandlerBind(r)
    \/ \E r \in Req : ClientCancel(r)
    \/ \E r \in Req : SignProbe(r)
    \/ \E r \in Req : SignEvaluate(r)
    \/ \E r \in Req : HandlerRespond(r)

SpecCancel == Init /\ [][NextCancel]_vars

\* ================================================================ claims
IsErr(outcome) ==
    outcome \in {"ErrNoPage", "ErrProbe", "ErrAbsent", "ErrMarshal",
                 "ErrEval", "ErrShape"}

\* A Sign call is inside its probe-serialize-evaluate-extract sequence: the
\* probe has been evaluated and the signing evaluation has not returned.
InSection(r) == req[r].pc = "marshal"

\* C1: mutual exclusion of Sign: at every instant at most one Sign call is
\* between the start of its probe and the end of its signing evaluation.
C1_MutualExclusion ==
    \A r1, r2 \in Req : r1 # r2 => ~(InSection(r1) /\ InSection(r2))

\* C2: single initialization: for N calls of NewSigner exactly one launch
\* sequence executes and all calls observe the same session or the same
\* error.
C2_SingleInitialization ==
    /\ Launches <= 1
    /\ \A i, j \in Inst :
         npc[i] = "done" /\ npc[j] = "done"
            => ret[i] = ret[j] /\ ReturnedErr(i) = ReturnedErr(j)

\* C3: sticky failure: once initialization has failed, every subsequent Sign
\* call returns an error immediately and performs no page interaction.
C3_StickyFailure ==
    \A r \in Req :
       req[r].pc = "signed" /\ ReturnedErr(req[r].caller) # "nil"
          => IsErr(req[r].outcome) /\ req[r].probes = 0 /\ req[r].evals = 0

\* The in-page function returned an object without a string under "X-s" or
\* without a string under "X-t".
IllShapedMap(res) ==
    /\ res.kind = "map"
    /\ res.m["X-s"].t # "string" \/ res.m["X-t"].t # "string"

\* C4: result-shape checking: when the in-page function returns an object
\* lacking a string under "X-s" or under "X-t", Sign fails with a
\* result-shape error.
C4_ResultShapeChecked ==
    \A r \in Req :
       req[r].pc = "signed" /\ IllShapedMap(req[r].res)
          => req[r].outcome = "ErrShape"

WellShapedMap(res) ==
    /\ res.kind = "map"
    /\ res.m["X-s"].t = "string"
    /\ res.m["X-t"].t = "string"

\* C5: result extraction: an object with strings a under "X-s" and b under
\* "X-t" makes Sign succeed with exactly (a, b); a non-object makes Sign
\* fail with a result-shape error and no result.
C5_ResultExtraction ==
    \A r \in Req :
       req[r].pc = "signed" /\ req[r].evals = 1 =>
          /\ WellShapedMap(req[r].res) =>
                /\ req[r].outcome = "ok"
                /\ req[r].xs = req[r].res.m["X-s"].v
                /\ req[r].xt = req[r].res.m["X-t"].v
          /\ req[r].res.kind \in {"null", "string"} =>
                /\ req[r].outcome = "ErrShape"
                /\ req[r].xs = "" /\ req[r].xt = ""

C5_Witness ==
    \E r1, r2 \in Req :
       /\ req[r1].pc = "signed" /\ WellShapedMap(req[r1].res)
       /\ req[r1].xs = "abc" /\ req[r1].xt = "123"
       /\ req[r2].pc = "signed" /\ req[r2].res.kind = "null"
       /\ req[r2].outcome = "ErrShape"

\* C6: gateway outcome mapping: a handled request gets exactly one response:
\* 400 iff the body failed to decode, 500 iff it decoded and Sign returned an
\* error, 200 with Sign's two tokens iff it decoded and Sign succeeded.
C6_GatewayOutcome ==
    \A r \in Req :
       /\ req[r].pc # "done" => req[r].written = 0
       /\ req[r].pc = "done" =>
             /\ req[r].written = 1
             /\ req[r].status \in {200, 400, 500}
             /\ req[r].status = 400 <=> ~req[r].decoded
             /\ req[r].status = 500 <=>
                   req[r].decoded /\ IsErr(req[r].outcome)
             /\ req[r].status = 200 <=>
                   /\ req[r].decoded
                   /\ req[r].outcome = "ok"
                   /\ req[r].bodyXS = req[r].xs
                   /\ req[r].bodyXT = req[r].xt

C6_Witness ==
    \E r1, r2 \in Req :
       /\ req[r1].pc = "done" /\ req[r1].status = 200
       /\ req[r1].bodyXS = "abc" /\ req[r1].bodyXT = "123"
       /\ req[r2].pc = "done" /\ req[r2].status = 500
       /\ req[r2].outcome = "ErrEval"

\* The order in which Close releases the handles.
CloseOrder == <<"page", "context", "browser", "pw">>

IsPrefix(p, q) == Len(p) <= Len(q) /\ \A k \in 1..Len(p) : p[k] = q[k]

\* The earliest step of CloseOrder that failed, "nil" if none did.
EarliestFailed ==
    IF closeFailed = {} THEN "nil"
    ELSE CloseOrder[CHOOSE k \in 1..Len(CloseOrder) :
                       /\ CloseOrder[k] \in closeFailed
                       /\ \A j \in 1..(k - 1) : CloseOrder[j] \notin closeFailed]

\* C7: Close releases every non-nil handle in the order page, context,
\* browser, runtime; a failed step does not stop the later ones; the error
\* returned is that of the earliest failing step, nil iff no step failed.
C7_CloseOrderBestEffort ==
    /\ IsPrefix(closeLog, SelectSeq(CloseOrder,
                                    LAMBDA h : signer[MainInst][h]))
    /\ cpc = "done" =>
          /\ closeLog = SelectSeq(CloseOrder, LAMBDA h : signer[MainInst][h])
          /\ firstErr = EarliestFailed
          /\ firstErr = "nil" <=> closeFailed = {}

C7_Witness ==
    /\ cpc = "done"
    /\ closeFailed = {"context", "pw"}
    /\ closeLog = CloseOrder
    /\ firstErr = "context"

\* The error that identifies each fallible call of the launch sequence.
StageErr(at) ==
    CASE at = "run" -> "ErrRun"
      [] at = "launch" -> "ErrLaunch"
      [] at = "newcontext" -> "ErrNewContext"
      [] at = "stat" -> "ErrStat"
      [] at = "addinitscript" -> "ErrAddInitScript"
      [] at = "newpage" -> "ErrNewPage"
      [] at = "goto" -> "ErrGoto"
      [] at = "cookies" -> "nil"

\* C8: the stages run in source order; when a stage fails no later stage
\* runs and the error returned identifies that stage; a failure of the
\* cookie read alone never fails the initialization.
C8_StagedInitShortCircuits ==
    \A i \in Inst :
       /\ IsPrefix(stagesRun[i], StageOrder)
       /\ ReturnedErr(i) # "nil" =>
             /\ stagesRun[i] # <<>>
             /\ StageErr(stagesRun[i][Len(stagesRun[i])]) = ReturnedErr(i)
             /\ npc[i] \in {"ret", "done"}
       /\ cookieErr[i] => ReturnedErr(i) = "nil"
       /\ npc[i] = "done" =>
             (ret[i] = i <=> ReturnedErr(i) = "nil")
       /\ npc[i] = "done" /\ ret[i] = i => stagesRun[i] = StageOrder

C8_Witness ==
    /\ npc[MainInst] = "done"
    /\ ReturnedErr(MainInst) = "ErrStat"
    /\ stagesRun[MainInst] = <<"run", "launch", "newcontext", "stat">>
    /\ ret[MainInst] = NilSigner

C8_WitnessCookies ==
    /\ npc[MainInst] = "done"
    /\ cookieErr[MainInst]
    /\ ret[MainInst] = MainInst

\* C9: on every path by which the process terminates after a successful
\* initialization, Close is invoked exactly once.
C9_ClosedExactlyOnce ==
    exitCode # -1 /\ ret[MainInst] = MainInst => closeCalls = 1

\* C10: every Sign call probes first; when the probe reports the function
\* absent or errors, Sign returns an error and neither serializes the
\* payload nor performs the signing evaluation.
C10_ProbeBeforeEvaluate ==
    \A r \in Req :
       /\ req[r].pc \in {"marshal", "signed"}
             \/ (req[r].pc = "done" /\ req[r].decoded)
             => req[r].probes = 1
       /\ req[r].marshals > 0 \/ req[r].evals > 0 \/ req[r].outcome = "ok"
             => req[r].probes = 1 /\ req[r].exists = "true"
       /\ req[r].exists \in {"false", "error"} =>
             /\ req[r].pc \in {"signed", "done"}
             /\ IsErr(req[r].outcome)
             /\ req[r].marshals = 0
             /\ req[r].evals = 0

C10_Witness ==
    \E r1, r2 \in Req :
       /\ req[r1].pc = "signed" /\ req[r1].exists = "false"
       /\ req[r1].outcome = "ErrAbsent"
       /\ req[r2].pc = "signed" /\ req[r2].exists = "error"
       /\ req[r2].outcome = "ErrProbe"

\* C11: round-trip payload fidelity: the second argument of the in-page call,
\* parsed from the caller-side serialization of the payload, is structurally
\* equal to the payload, and the first argument is the request URI.
C11_PayloadRoundTrip ==
    \A r \in Req :
       /\ req[r].evals = 1 =>
             /\ JSONParse(req[r].dataJSON).ok
             /\ JSONParse(req[r].dataJSON).v = req[r].data
       /\ req[r].argURI # "" =>
             /\ req[r].argURI = req[r].uri
             /\ req[r].argData = req[r].data
       /\ req[r].evals = 1 /\ req[r].res.kind # "error"
             => req[r].argURI # ""

C11_Witness ==
    \E r \in Req :
       /\ req[r].pc = "signed"
       /\ req[r].uri = "/api/bar"
       /\ req[r].data = GoObj([k \in {<<"a">>, <<"b", "a">>} |->
                                IF k = <<"a">> THEN GoStr(<<"a", "\"", "b">>)
                                ELSE GoNum(-120)])
       /\ req[r].argURI = "/api/bar"
       /\ req[r].argData = req[r].data
       /\ req[r].outcome = "ok"

\* The engine is a successfully initialized one: NewSigner returned the
\* handle and no error, and the page handle is non-nil.
EngineWorking ==
    /\ npc[MainInst] = "done"
    /\ ret[MainInst] = MainInst
    /\ ReturnedErr(MainInst) = "nil"
    /\ signer[MainInst].page

\* C12: no serving without a working engine: after a failed initialization
\* the process exits without starting the HTTP listener, and whenever a
\* /sign request is being handled the engine was successfully initialized.
C12_NoServingWithoutEngine ==
    /\ ReturnedErr(MainInst) # "nil" =>
          /\ lpc = "none"
          /\ mpc \in {"init", "exited"}
          /\ mpc = "exited" => exitCode = 1
          /\ \A r \in Req : req[r].pc = "idle"
    /\ lpc # "none" => EngineWorking
    /\ \A r \in Req : req[r].pc # "idle" => EngineWorking

C12_Witness ==
    /\ ReturnedErr(MainInst) = "ErrGoto"
    /\ signer[MainInst].page
    /\ exitCode = 1
    /\ lpc = "none"

\* C13: a /sign body that fails to decode is answered without calling Sign:
\* no probe, no serialization and no evaluation is made for it, and the
\* step that answers it leaves the engine session as it was.
C13_DecodeFailureNoEngineEffect ==
    /\ [](\A r \in Req :
            req[r].pc \notin {"idle", "reading"} /\ ~req[r].decoded =>
               /\ req[r].pc = "done"
               /\ req[r].status = 400
               /\ req[r].written = 1
               /\ req[r].outcome = "none"
               /\ req[r].probes = 0
               /\ req[r].marshals = 0
               /\ req[r].evals = 0
               /\ req[r].argURI = "")
    /\ [][\A r \in Req :
            req[r].pc = "reading" /\ req'[r].status = 400 =>
               /\ signer' = signer
               /\ live' = live
               /\ ret' = ret]_vars

C13_Witness ==
    \E r1, r2 \in Req :
       /\ req[r1].pc = "done" /\ req[r1].status = 400
       /\ req[r2].pc = "done" /\ req[r2].status = 200
       /\ signer[MainInst].page /\ PageOpen(MainInst)

\* A Sign call of request r returns a failure in this step.
SignFails(r) ==
    /\ req[r].pc \in {"sign", "marshal"}
    /\ req'[r].pc = "signed"
    /\ req'[r].outcome # "ok"

\* C14: a Sign call makes at most one probe and at most one signing
\* evaluation; a failing Sign call leaves the engine session and what the
\* page can answer to a later call unchanged, and a call whose probe finds
\* the function and whose evaluation returns a well-shaped object succeeds.
C14_NoRetryNoStateChange ==
    /\ [](\A r \in Req :
            /\ req[r].probes <= 1
            /\ req[r].evals <= 1
            /\ req[r].marshals <= 1
            /\ req[r].pc = "signed" /\ req[r].exists = "true"
                  /\ WellShapedMap(req[r].res)
                  => req[r].outcome = "ok")
    /\ [][\A r \in Req :
            SignFails(r) =>
               /\ signer' = signer
               /\ live' = live
               /\ ret' = ret
               /\ \A i \in Inst : PageOpen(i)' = PageOpen(i)]_vars

C14_Witness ==
    \E r1, r2 \in Req :
       /\ req[r1].pc = "done" /\ req[r1].outcome = "ErrAbsent"
       /\ req[r1].probes = 1 /\ req[r1].evals = 0
       /\ req[r2].pc = "signed" /\ req[r2].outcome = "ok"
       /\ req[r2].xs = "abc" /\ req[r2].xt = "123"

\* The outcome Sign returns for an evaluation result when nothing interferes.
NormalOutcome(res) ==
    IF res.kind = "error" THEN "ErrEval" ELSE Extract(res).outcome

\* C15: cancellation is advisory: a Sign call whose request context was
\* cancelled is never aborted between its probe and the end of its signing
\* evaluation: it leaves that stretch only by returning, after the one
\* evaluation, what the evaluation yields, as without cancellation, and the
\* cancellation itself changes nothing else of the call.
C15_CancellationAdvisory ==
    /\ [][\A r \in Req :
            req[r].cancelled # "" /\ req[r].pc = "marshal"
               /\ req'[r].pc # "marshal" =>
                  /\ req'[r].pc = "signed"
                  /\ req'[r].evals = 1
                  /\ req'[r].marshals = 1
                  /\ req'[r].outcome = NormalOutcome(req'[r].res)
                  /\ req'[r].outcome = "ok" =>
                        /\ req'[r].xs = Extract(req'[r].res).xs
                        /\ req'[r].xt = Extract(req'[r].res).xt]_vars
    /\ [][\A r \in Req :
            req[r].cancelled = "" /\ req'[r].cancelled # "" =>
               req' = [req EXCEPT ![r].cancelled = req'[r].cancelled]]_vars

C15_Witness ==
    \E r \in Req :
       /\ req[r].cancelled = "marshal"
       /\ req[r].pc = "done"
       /\ req[r].status = 200
       /\ req[r].bodyXS = "abc" /\ req[r].bodyXT = "123"

\* Close has begun (and possibly ended).
CloseBegun == closeCalls > 0

\* C16: Close never overlaps Sign: Close does not begin while a Sign call is
\* in flight, and no Sign call evaluates on the page during or after Close.
C16_CloseNeverOverlapsSign ==
    CloseBegun => \A r \in Req : req[r].pc \notin {"sign", "marshal"}

\* C17: the resources a failed initialization had acquired are closed before
\* the process exits.
C17_FailedInitReleases ==
    exitCode # -1 /\ ReturnedErr(MainInst) # "nil" => live[MainInst] = {}

\* Every fallible call of the launch sequence succeeded: the last one, the
\* navigation, was followed by the cookie read.
AllStagesSucceeded(i) ==
    /\ Len(stagesRun[i]) = Len(StageOrder)
    /\ npc[i] \in {"ret", "done"}

\* C18: NewSigner returns either (engine, nil) or (nil, error); the engine is
\* returned iff every fallible stage succeeded, its four handles are then
\* non-nil, and nothing after the return, a Sign call in particular, changes
\* the Signer.
C18_InitResultInvariant ==
    /\ [](\A i \in Inst :
            npc[i] = "done" =>
               /\ \/ ret[i] = i /\ ReturnedErr(i) = "nil"
                  \/ ret[i] = NilSigner /\ ReturnedErr(i) # "nil"
               /\ ret[i] = i <=> AllStagesSucceeded(i)
               /\ ret[i] = i =>
                     \A h \in Handles : signer[i][h])
    /\ [][\A i \in Inst :
            npc[i] = "done" => signer'[i] = signer[i] /\ ret'[i] = ret[i]]_vars

C18_Witness ==
    /\ npc[MainInst] = "done"
    /\ ret[MainInst] = MainInst
    /\ \A h \in Handles : signer[MainInst][h]
    /\ \E r1, r2 \in Req :
         /\ req[r1].pc = "signed" /\ req[r1].outcome = "ok"
         /\ req[r2].pc = "signed" /\ req[r2].outcome = "ErrEval"

====
